---- MODULE Spec2Model ----
(***************************************************************************)
(* Room server (kimjune01/room): the connection registry with host        *)
(* assignment and activity switching, the snake tick simulation and the   *)
(* YouTube sync timeline, as written in                                   *)
(* src/SIMPLE_ACTIVITIES_ARCHITECTURE.md.  The specifications of the      *)
(* module: Spec (registry), BroadcastSpec (fan-out with failing sends),   *)
(* SwitchSpec (a switch with its snapshot loop), SnakeSpec and            *)
(* SnakeRoomSpec (one SnakeGameActivity), TimelineSpec (one               *)
(* YouTubeSyncActivity), StopSpec (stop() of the two activities),         *)
(* RoomsSpec (two rooms with their activities side by side), FaultSpec    *)
(* (a room whose activity raises), FoodSpec (a longer snake game),        *)
(* PlayerSpec (the client's YouTubePlayer component, src/unnamed/part_004) *)
(* and AppSpec (the client's App, src/frontend/src/App.tsx).               *)
(***************************************************************************)
EXTENDS Integers, Sequences, FiniteSets, TLC

VARIABLES
    manager,            \* ExtendedConnectionManager: rooms, client_info
    activity_registry,  \* RoomActivityRegistry: rooms, room_hosts, user_roles
    detached,           \* started ActivityManager objects no longer in the registry
    join_order,         \* per room, the connections in the order they joined
    pending,            \* connections suspended inside change_room_activity
    sent,               \* the messages written by the last step
    last,               \* the last registry operation and its arguments
    broken,             \* the connections whose socket no longer takes a send
    doomed,             \* the connections a failed send has scheduled for removal
    voice_chat_participants, \* per room, the usernames in the voice chat
    snapshots,          \* handle_activity_change inside its loop over the members
    yt,                 \* one YouTubeSyncActivity: state, users, running
    now,                \* time.time()
    mutation,           \* sequence number and timestamp of the last accepted mutation
    yt_bcast,           \* the _broadcast_sync() calls of the last step
    yt_log,             \* the last timeline step and the last accepted mutation
    buffering,          \* the usernames whose buffering flag is raised
    game,               \* one SnakeGameActivity: state and running
    ticks,              \* the iterations of _game_loop that updated the state
    snake_last,         \* the last snake operation and its arguments
    ytp,                \* one client's YouTubePlayer component and its embedded player
    app                 \* one client's App: its connection and its activityState

regVars == <<manager, activity_registry, detached, join_order, pending, sent, last,
             broken, doomed, voice_chat_participants, snapshots>>

ytVars == <<yt, now, mutation, yt_bcast, yt_log, buffering>>

snakeVars == <<game, ticks, snake_last>>

clientVars == <<ytp, app>>

vars == <<regVars, ytVars, snakeVars, clientVars>>

(***************************************************************************)
(* Python dictionaries: functions whose domain is the set of keys.        *)
(***************************************************************************)
EmptyDict == [k \in {} |-> 0]

DictSet(d, k, v) == [x \in (DOMAIN d) \cup {k} |-> IF x = k THEN v ELSE d[x]]

DictDel(d, k) == [x \in (DOMAIN d) \ {k} |-> d[x]]

DictGet(d, k, default) == IF k \in DOMAIN d THEN d[k] ELSE default

(***************************************************************************)
(* The inputs of the registry.                                            *)
(***************************************************************************)
Handles == {"h1", "h2", "h3"}

Users == {"alice", "bob"}

\* the username each connection presents: alice is connected twice
UserOf == [h \in Handles |-> IF h = "h2" THEN "bob" ELSE "alice"]

Rooms == {"r1", "r2"}

NoRoom == "none"

\* class ActivityType: the values of the enum
ActivityType == {"chat", "snake", "youtube", "whiteboard", "poll"}

\* RoomActivityRegistry.activity_types: the tags with a constructor
activity_types == {"chat", "snake", "youtube"}

\* what a client may put in data['activity_type']
RequestedTypes == ActivityType \cup {"bogus"}

\* class RoomRole
HOST == "host"

PARTICIPANT == "user"

\* how many started ActivityManager objects the registry may have lost track of
MaxDetached == 1

Msg(to, type, info) == [to |-> to, type |-> type, info |-> info]

\* broadcast_to_room without exclude_user
NoExclude == ""

(***************************************************************************)
(* The registry's world: the objects one handler reads and writes.        *)
(***************************************************************************)
World == [manager |-> manager, registry |-> activity_registry,
          detached |-> detached, join_order |-> join_order, out |-> {},
          broken |-> broken, doomed |-> doomed]

Members(W, room) == DictGet(W.manager.rooms, room, {})

UsernameOf(W, h) == W.manager.client_info[h].username

RoomOf(W, h) == W.manager.client_info[h].room

Emit(W, msgs) == [W EXCEPT !.out = @ \cup msgs]

\* RoomActivityRegistry.set_room_host
set_room_host_NoHostWrite(W, room_id, user_id) ==
    LET roles == DictGet(W.registry.user_roles, room_id, EmptyDict)
    IN [W EXCEPT !.registry.user_roles = DictSet(@, room_id, DictSet(roles, user_id, HOST))]

set_room_host(W, room_id, user_id) ==
    LET roles == DictGet(W.registry.user_roles, room_id, EmptyDict)
    IN [W EXCEPT !.registry.room_hosts = DictSet(@, room_id, user_id),
                 !.registry.user_roles = DictSet(@, room_id, DictSet(roles, user_id, HOST))]

\* RoomActivityRegistry.get_user_role
get_user_role(W, room_id, user_id) ==
    IF room_id \notin DOMAIN W.registry.user_roles
    THEN PARTICIPANT
    ELSE DictGet(W.registry.user_roles[room_id], user_id, PARTICIPANT)

\* RoomActivityRegistry.can_change_activity
can_change_activity_Anyone(W, room_id, user_id) == TRUE

can_change_activity(W, room_id, user_id) == get_user_role(W, room_id, user_id) = HOST

\* RoomActivityRegistry.get_room_activity: the room's object, or None
None == [room_id |-> NoRoom, type |-> "none", running |-> FALSE,
         status |-> "", turns |-> 0]

\* activity_class(room_id, config), then start(): of the object's state the
\* registry model keeps the status of a game and the turns its loop has made
NewActivity(room_id, activity_type) ==
    [room_id |-> room_id, type |-> activity_type, running |-> TRUE,
     status |-> IF activity_type = "snake" THEN "waiting" ELSE "",
     turns |-> 0]

get_room_activity(W, room_id) == DictGet(W.registry.rooms, room_id, None)

\* ActivityManager.stop: running = False (the task is cancelled)
stop(obj) == [obj EXCEPT !.running = FALSE]

\* SnakeGameActivity.stop awaits its cancelled task: the caller is suspended
\* there and other handlers run; YouTubeSyncActivity.stop does not await.
StopSuspends(obj) == obj.type = "snake"

\* An object the registry no longer refers to lives on while its task runs.
Detach(W, obj) ==
    IF obj.running
    THEN [W EXCEPT !.detached = DictSet(@, <<obj.room_id, obj.type>>,
                                        DictGet(@, <<obj.room_id, obj.type>>, 0) + 1)]
    ELSE W

DetachedCount(d) == LET RECURSIVE Sum(_)
                        Sum(K) == IF K = {} THEN 0
                                  ELSE LET k == CHOOSE x \in K : TRUE
                                       IN d[k] + Sum(K \ {k})
                    IN Sum(DOMAIN d)

\* change_room_activity, from "Create new activity" on: construct, register, start
create_and_start(W, room_id, activity_type) ==
    LET obj == NewActivity(room_id, activity_type)
        W1 == IF room_id \in DOMAIN W.registry.rooms
              THEN Detach(W, W.registry.rooms[room_id])
              ELSE W
    IN [W1 EXCEPT !.registry.rooms = DictSet(@, room_id, obj)]

\* the model stops before a further object would be lost
CanCreate(W, room_id) ==
    get_room_activity(W, room_id).running => DetachedCount(W.detached) < MaxDetached

\* change_room_activity, up to "Stop existing activity": the refusal, or "ok"
change_check(W, room_id, user_id, activity_type) ==
    IF ~can_change_activity(W, room_id, user_id)
    THEN "Only the room host can change activities"
    ELSE IF activity_type \notin activity_types
    THEN "Unknown activity type"
    ELSE "ok"

\* change_room_activity, "Stop existing activity"
stop_existing(W, room_id) ==
    IF room_id \in DOMAIN W.registry.rooms
    THEN [W EXCEPT !.registry.rooms[room_id] = stop(@)]
    ELSE W


\* change_room_activity when nothing suspends it (no activity to stop, or one
\* whose stop() does not await)
change_room_activity(W, room_id, user_id, activity_type) ==
    IF change_check(W, room_id, user_id, activity_type) # "ok"
    THEN W
    ELSE create_and_start(stop_existing(W, room_id), room_id, activity_type)

\* ConnectionManager.broadcast_to_room: one copy to every connection of the room
\* whose username is not exclude_user; a connection whose send fails is
\* scheduled for removal and the others are served all the same
Recipients_AllRooms(W, room, exclude_user) ==
    {h \in DOMAIN W.manager.client_info : UsernameOf(W, h) # exclude_user}

Recipients(W, room, exclude_user) ==
    {h \in Members(W, room) : UsernameOf(W, h) # exclude_user}

broadcast_to_room_Aborts(W, room, type, info, exclude_user) ==
    LET to == Recipients(W, room, exclude_user)
        failed == to \cap W.broken
    IN IF failed = {}
       THEN Emit(W, {Msg(h, type, info) : h \in to})
       ELSE [W EXCEPT !.doomed = @ \cup failed]

broadcast_to_room(W, room, type, info, exclude_user) ==
    LET to == Recipients(W, room, exclude_user)
        failed == to \cap W.broken
    IN [Emit(W, {Msg(h, type, info) : h \in to \ failed})
           EXCEPT !.doomed = @ \cup failed]

\* ExtendedConnectionManager.connect; role_assigned carries the JSON fields
\* role and is_host
connect_NoAdd(W, ws, room, username) ==
    LET W1 == IF room \notin DOMAIN W.manager.rooms
              THEN set_room_host([W EXCEPT !.manager.rooms = DictSet(@, room, {})],
                                 room, username)
              ELSE W
        W2 == [W1 EXCEPT !.manager.client_info =
                              DictSet(@, ws, [room |-> room, username |-> username])]
        W3 == IF get_room_activity(W2, room) = None
              THEN change_room_activity(W2, room, username, "chat")
              ELSE W2
        role == get_user_role(W3, room, username)
    IN Emit(W3, {Msg(ws, "role_assigned",
                     <<role, IF role = HOST THEN "true" ELSE "false">>)})

connect(W, ws, room, username) ==
    LET W1 == IF room \notin DOMAIN W.manager.rooms
              THEN set_room_host([W EXCEPT !.manager.rooms = DictSet(@, room, {})],
                                 room, username)
              ELSE W
        W2 == [W1 EXCEPT !.manager.rooms[room] = @ \cup {ws},
                         !.manager.client_info =
                              DictSet(@, ws, [room |-> room, username |-> username])]
        W3 == IF get_room_activity(W2, room) = None
              THEN change_room_activity(W2, room, username, "chat")
              ELSE W2
        role == get_user_role(W3, room, username)
    IN Emit(W3, {Msg(ws, "role_assigned",
                     <<role, IF role = HOST THEN "true" ELSE "false">>)})

\* handle_activity_change, the success branch: the new activity is registered and
\* started, activity_changed goes to the room, then each member gets its state
announce_change(W, room_id, user_id, activity_type) ==
    broadcast_to_room(create_and_start(W, room_id, activity_type), room_id,
                      "activity_changed", <<activity_type, user_id>>, NoExclude)

\* activity.get_state_for_user(client['username']), sent to ws
snapshot(W, ws, activity_type) == Msg(ws, "state", <<activity_type, UsernameOf(W, ws)>>)

finish_change(W, room_id, user_id, activity_type) ==
    LET W2 == announce_change(W, room_id, user_id, activity_type)
    IN Emit(W2, {snapshot(W2, h, activity_type) : h \in Members(W2, room_id)})

\* handle_activity_change, the refusals: the error goes to the requester alone
refuse_change(W, ws, message) == Emit(W, {Msg(ws, "activity_change_error", <<message>>)})

\* leave(handle): the member is removed; a departing host is replaced by the
\* earliest remaining joiner; the room goes with its last member
Remaining(W, room, ws) == SelectSeq(W.join_order[room], LAMBDA h : h # ws)

\* the host that follows a departed one: the earliest remaining joiner
next_host_Latest(W, rest) == UsernameOf(W, rest[Len(rest)])

next_host(W, rest) == UsernameOf(W, Head(rest))

\* leave of a connection that is not registered (a second leave)
leave_absent_Notifies(W, ws) == Emit(W, {Msg(h, "user_left", <<"">>) : h \in DOMAIN W.manager.client_info})

leave_absent(W, ws) == W

\* the host-change notification of a leave: host_changed, naming the new host,
\* to every remaining member
announce_host_Silent(W, room, new_host) == W

announce_host(W, room, new_host) ==
    broadcast_to_room(W, room, "host_changed", <<new_host>>, NoExclude)

disconnect(W, ws) ==
    IF ws \notin DOMAIN W.manager.client_info
    THEN leave_absent(W, ws)
    ELSE
    LET room == RoomOf(W, ws)
        user == UsernameOf(W, ws)
        rest == Remaining(W, room, ws)
        W1 == [W EXCEPT !.manager.rooms[room] = @ \ {ws},
                        !.manager.client_info = DictDel(@, ws),
                        !.broken = @ \ {ws},
                        !.doomed = @ \ {ws},
                        !.join_order[room] = rest,
                        !.registry.user_roles =
                            IF room \in DOMAIN @
                            THEN [@ EXCEPT ![room] = DictDel(@, user)]
                            ELSE @]
    IN IF rest = << >>
       THEN LET W2 == stop_existing(W1, room)
            IN [W2 EXCEPT !.manager.rooms = DictDel(@, room),
                          !.join_order[room] = << >>,
                          !.registry.rooms = DictDel(@, room),
                          !.registry.room_hosts = DictDel(@, room),
                          !.registry.user_roles = DictDel(@, room)]
       ELSE \* W2 is the world once user_left went out, worked out once
            CHOOSE W3 \in
                {IF DictGet(W.registry.room_hosts, room, "") = user
                 THEN LET new_host == next_host(W2, rest)
                      IN announce_host(set_room_host(W2, room, new_host), room, new_host)
                 ELSE W2 :
                    W2 \in {broadcast_to_room(W1, room, "user_left", <<user>>, NoExclude)}} :
                TRUE

(***************************************************************************)
(* The registry's steps.                                                  *)
(***************************************************************************)
Commit(W) ==
    /\ manager' = W.manager
    /\ activity_registry' = W.registry
    /\ detached' = W.detached
    /\ join_order' = W.join_order
    /\ sent' = W.out
    /\ broken' = W.broken
    /\ doomed' = W.doomed

\* the last operation; again marks a leave that directly follows the leave
\* that removed the same connection
Op(name, h, room) == [op |-> name, h |-> h, room |-> room, again |-> FALSE]

Connected(h) == h \in DOMAIN manager.client_info

Idle(h) == h \notin DOMAIN pending /\ h \notin DOMAIN snapshots

RegInit ==
    /\ manager = [rooms |-> EmptyDict, client_info |-> EmptyDict]
    /\ activity_registry = [rooms |-> EmptyDict, room_hosts |-> EmptyDict,
                            user_roles |-> EmptyDict]
    /\ detached = EmptyDict
    /\ join_order = [r \in Rooms |-> << >>]
    /\ pending = EmptyDict
    /\ sent = {}
    /\ last = Op("init", "", NoRoom)
    /\ broken = {}
    /\ doomed = {}
    /\ voice_chat_participants = EmptyDict
    /\ snapshots = EmptyDict

\* websocket_endpoint: manager.connect(websocket, room, username)
Connect(h, room) ==
    /\ UNCHANGED <<clientVars, ytVars, snakeVars, voice_chat_participants, snapshots>>
    /\ ~Connected(h)
    /\ Idle(h)
    /\ LET W == connect(World, h, room, UserOf[h])
       IN Commit([W EXCEPT !.join_order[room] = Append(@, h)])
    /\ UNCHANGED pending
    /\ last' = Op("connect", h, room)

\* websocket_endpoint, on WebSocketDisconnect: manager.disconnect(websocket);
\* a second call for the same connection finds nothing to remove
Disconnect(h) ==
    /\ UNCHANGED <<clientVars, ytVars, snakeVars, voice_chat_participants, snapshots>>
    /\ Idle(h)
    /\ Commit(disconnect(World, h))
    /\ UNCHANGED pending
    /\ last' = [Op("disconnect", h, IF Connected(h) THEN RoomOf(World, h) ELSE NoRoom)
                   EXCEPT !.again = (last.op = "disconnect" /\ last.h = h
                                     /\ last.room # NoRoom)]

\* handle_activity_change up to the first point where it can be suspended
ChangeActivity(h, requested) ==
    /\ UNCHANGED <<clientVars, ytVars, snakeVars, voice_chat_participants, snapshots>>
    /\ Connected(h)
    /\ Idle(h)
    /\ LET W == World
           room_id == RoomOf(W, h)
           user_id == UsernameOf(W, h)
           check == change_check(W, room_id, user_id, requested)
           old == get_room_activity(W, room_id)
       IN /\ last' = Op("change_activity", h, room_id)
          /\ IF requested \notin ActivityType
             THEN Commit(refuse_change(W, h, "Invalid activity type")) /\ UNCHANGED pending
             ELSE IF check # "ok"
             THEN Commit(refuse_change(W, h, check)) /\ UNCHANGED pending
             ELSE IF old # None /\ StopSuspends(old)
             THEN /\ Commit(stop_existing(W, room_id))
                  /\ pending' = DictSet(pending, h,
                                   [room |-> room_id, user |-> user_id, type |-> requested])
             ELSE /\ Commit(finish_change(stop_existing(W, room_id), room_id, user_id, requested))
                  /\ UNCHANGED pending

\* change_room_activity resumes after "await self.rooms[room_id].stop()"
ResumeChange(h) ==
    /\ UNCHANGED <<clientVars, ytVars, snakeVars, voice_chat_participants, snapshots>>
    /\ h \in DOMAIN pending
    /\ CanCreate(World, pending[h].room)
    /\ LET p == pending[h]
       IN /\ Commit(finish_change(World, p.room, p.user, p.type))
          /\ last' = Op("resume_change", h, p.room)
    /\ pending' = DictDel(pending, h)

\* a connection's socket dies: from now on a send to it fails
Break(h) ==
    /\ UNCHANGED <<clientVars, ytVars, snakeVars, voice_chat_participants, snapshots>>
    /\ Connected(h)
    /\ h \notin broken
    /\ broken' = broken \cup {h}
    /\ sent' = {}
    /\ last' = Op("break", h, RoomOf(World, h))
    /\ UNCHANGED <<manager, activity_registry, detached, join_order, pending, doomed>>

\* list(...) of a set of usernames
ListOf(S) == LET RECURSIVE L(_)
                 L(T) == IF T = {} THEN << >>
                         ELSE LET x == CHOOSE y \in T : TRUE
                              IN <<x>> \o L(T \ {x})
             IN L(S)

\* handle_voice_join
handle_voice_join(W, voice, websocket, room, username) ==
    LET v1 == DictSet(voice, room, DictGet(voice, room, {}) \cup {username})
        existing_participants == ListOf(v1[room] \ {username})
        W1 == Emit(W, {Msg(websocket, "voice:existing_participants", existing_participants)})
    IN [voice |-> v1,
        W |-> broadcast_to_room(W1, room, "voice:peer_joined", <<username>>, username)]

\* handle_voice_leave
handle_voice_leave(W, voice, websocket, room, username) ==
    LET v1 == IF room \in DOMAIN voice
              THEN [voice EXCEPT ![room] = @ \ {username}]
              ELSE voice
        v2 == IF room \in DOMAIN v1 /\ v1[room] = {}
              THEN DictDel(v1, room)
              ELSE v1
    IN [voice |-> v2,
        W |-> broadcast_to_room(W, room, "voice:peer_left", <<username>>, username)]

\* websocket_endpoint, message_type voice:join, from a connection that is alive
VoiceJoin(h) ==
    /\ UNCHANGED <<clientVars, ytVars, snakeVars, pending, snapshots>>
    /\ Connected(h)
    /\ h \notin broken
    /\ LET r == handle_voice_join(World, voice_chat_participants, h,
                                  RoomOf(World, h), UsernameOf(World, h))
       IN /\ Commit(r.W)
          /\ voice_chat_participants' = r.voice
    /\ last' = Op("voice_join", h, RoomOf(World, h))

\* websocket_endpoint, message_type voice:leave, from a connection that is alive
VoiceLeave(h) ==
    /\ UNCHANGED <<clientVars, ytVars, snakeVars, pending, snapshots>>
    /\ Connected(h)
    /\ h \notin broken
    /\ LET r == handle_voice_leave(World, voice_chat_participants, h,
                                   RoomOf(World, h), UsernameOf(World, h))
       IN /\ Commit(r.W)
          /\ voice_chat_participants' = r.voice
    /\ last' = Op("voice_leave", h, RoomOf(World, h))

\* the removal a failed send has scheduled: leave(handle)
Reap(h) ==
    /\ h \in doomed
    /\ last' = Op("reap", h, RoomOf(World, h))
    /\ UNCHANGED <<clientVars, ytVars, snakeVars, pending, voice_chat_participants, snapshots>>
    /\ \E W \in {disconnect(World, h)} : Commit(W)

\* joins, leaves, voice chat messages and dying sockets
BroadcastNext ==
    \/ \E h \in Handles, room \in Rooms : Connect(h, room)
    \/ \E h \in Handles : Disconnect(h)
    \/ \E h \in Handles : Break(h)
    \/ \E h \in Handles : VoiceJoin(h)
    \/ \E h \in Handles : VoiceLeave(h)
    \/ \E h \in Handles : Reap(h)

\* handle_activity_change about to enter "for ws in self.rooms[room_id]": the
\* connections served so far, and the size of the set when the loop began
\* (0 before it began)
Loop(room_id, activity_type) ==
    [room |-> room_id, type |-> activity_type, done |-> {}, n |-> 0, failed |-> FALSE]

\* handle_activity_change up to the end of "await self.broadcast_to_room(...)",
\* or to the await inside change_room_activity
SwitchActivity(h, requested) ==
    /\ UNCHANGED <<clientVars, ytVars, snakeVars, voice_chat_participants>>
    /\ Connected(h)
    /\ Idle(h)
    /\ LET W == World
           room_id == RoomOf(W, h)
           user_id == UsernameOf(W, h)
           check == change_check(W, room_id, user_id, requested)
           old == get_room_activity(W, room_id)
       IN /\ last' = Op("change_activity", h, room_id)
          /\ IF requested \notin ActivityType
             THEN /\ Commit(refuse_change(W, h, "Invalid activity type"))
                  /\ UNCHANGED <<pending, snapshots>>
             ELSE IF check # "ok"
             THEN /\ Commit(refuse_change(W, h, check))
                  /\ UNCHANGED <<pending, snapshots>>
             ELSE IF old # None /\ StopSuspends(old)
             THEN /\ Commit(stop_existing(W, room_id))
                  /\ pending' = DictSet(pending, h,
                                   [room |-> room_id, user |-> user_id, type |-> requested])
                  /\ UNCHANGED snapshots
             ELSE /\ Commit(announce_change(stop_existing(W, room_id), room_id, user_id,
                                            requested))
                  /\ snapshots' = DictSet(snapshots, h, Loop(room_id, requested))
                  /\ UNCHANGED pending

\* change_room_activity resumes after "await self.rooms[room_id].stop()" and
\* handle_activity_change goes on to the end of the broadcast
SwitchResume(h) ==
    /\ UNCHANGED <<clientVars, ytVars, snakeVars, voice_chat_participants>>
    /\ h \in DOMAIN pending
    /\ CanCreate(World, pending[h].room)
    /\ LET p == pending[h]
       IN /\ Commit(announce_change(World, p.room, p.user, p.type))
          /\ snapshots' = DictSet(snapshots, h, Loop(p.room, p.type))
          /\ last' = Op("resume_change", h, p.room)
    /\ pending' = DictDel(pending, h)

\* one turn of "for ws in self.rooms[room_id]": the set iterator raises
\* RuntimeError when the set has changed size since the loop began, ends when
\* every element was visited, and otherwise yields a connection, which is sent
\* its state; "await ws.send_json(state)" lets other handlers run before the
\* next turn.  The RuntimeError is caught nowhere: the connection's endpoint
\* ends without disconnect.
SnapshotStep(h) ==
    /\ UNCHANGED <<clientVars, ytVars, snakeVars, voice_chat_participants, pending>>
    /\ h \in DOMAIN snapshots
    /\ ~snapshots[h].failed
    /\ LET L == snapshots[h]
           members == Members(World, L.room)
           n == IF L.n = 0 THEN Cardinality(members) ELSE L.n
       IN IF Cardinality(members) # n
          THEN /\ snapshots' = [snapshots EXCEPT ![h].failed = TRUE]
               /\ Commit(World)
               /\ last' = Op("switch_failed", h, L.room)
          ELSE IF members \ L.done = {}
          THEN /\ snapshots' = DictDel(snapshots, h)
               /\ Commit(World)
               /\ last' = Op("switch_done", h, L.room)
          ELSE \E ws \in members \ L.done :
                  /\ snapshots' = [snapshots EXCEPT ![h].done = @ \cup {ws}, ![h].n = n]
                  /\ Commit(Emit(World, {snapshot(World, ws, L.type)}))
                  /\ last' = Op("snapshot", h, L.room)

\* joins, leaves and switches in one room, with the switch's awaits as points
\* where other handlers run
SwitchRoom == "r1"

SwitchNext ==
    \/ \E h \in Handles : Connect(h, SwitchRoom)
    \/ \E h \in Handles : Disconnect(h)
    \/ \E h \in Handles, requested \in RequestedTypes : SwitchActivity(h, requested)
    \/ \E h \in Handles : SwitchResume(h)
    \/ \E h \in Handles : SnapshotStep(h)

\* the action types a client sends to the room's activity
ActionTypes == {"start_game", "change_direction", "change_direction_bare"}

\* whether activity.user_action raises: a change_direction without the key
\* 'direction' makes action['direction'] raise KeyError in a game
user_action_raises(obj, type) ==
    obj.type = "snake" /\ type = "change_direction_bare"

\* how many turns the loop of a room's game makes
MaxTurns == 1

\* activity.user_action, as far as the registry model keeps the state: the
\* start_game branch of SnakeGameActivity.user_action
activity_user_action(obj, user_id, type) ==
    IF obj.type = "snake" /\ type = "start_game" /\ obj.status = "waiting"
    THEN [obj EXCEPT !.status = "playing"]
    ELSE obj

\* handle_activity_message, for a message that is no change_activity: the
\* action goes to the activity of the sender's room and the state to that room
handle_activity_message(W, websocket, type) ==
    LET room_id == RoomOf(W, websocket)
        user_id == UsernameOf(W, websocket)
        activity == get_room_activity(W, room_id)
    IN IF activity = None THEN W
       ELSE IF user_action_raises(activity, type)
       THEN \* nothing catches the exception: it ends the connection's endpoint
            [W EXCEPT !.broken = @ \cup {websocket}]
       ELSE LET W1 == [W EXCEPT !.registry.rooms[room_id] =
                                     activity_user_action(@, user_id, type)]
            IN broadcast_to_room(W1, room_id, "state",
                                 <<W1.registry.rooms[room_id].type,
                                   W1.registry.rooms[room_id].status, user_id>>,
                                 NoExclude)

ActivityMessage(h, type) ==
    /\ UNCHANGED <<clientVars, ytVars, snakeVars, voice_chat_participants, snapshots>>
    /\ Connected(h)
    /\ Idle(h)
    /\ h \notin broken
    /\ Commit(handle_activity_message(World, h, type))
    /\ UNCHANGED pending
    /\ last' = Op(IF user_action_raises(get_room_activity(World, RoomOf(World, h)), type)
                  THEN "activity_failed" ELSE "activity_message",
                  h, RoomOf(World, h))

\* one turn of _game_loop of the game registered for the room, while playing
ActivityTick(room) ==
    /\ UNCHANGED <<clientVars, ytVars, snakeVars, voice_chat_participants, snapshots>>
    /\ room \in DOMAIN activity_registry.rooms
    /\ LET obj == activity_registry.rooms[room]
       IN /\ obj.type = "snake" /\ obj.running /\ obj.status = "playing"
          /\ obj.turns < MaxTurns
    /\ Commit([World EXCEPT !.registry.rooms[room].turns = @ + 1])
    /\ UNCHANGED pending
    /\ last' = Op("tick", "", room)

\* two rooms side by side: joins, leaves, switches, actions and ticks
RoomsNext ==
    \/ \E h \in Handles, room \in Rooms : Connect(h, room)
    \/ \E h \in Handles : Disconnect(h)
    \/ \E h \in Handles, requested \in {"snake", "youtube"} : ChangeActivity(h, requested)
    \/ \E h \in Handles : ResumeChange(h)
    \/ \E h \in Handles, type \in {"start_game", "change_direction"} :
          ActivityMessage(h, type)
    \/ \E room \in Rooms : ActivityTick(room)

\* two rooms whose members also send actions that make user_action raise
FaultNext ==
    \/ \E h \in Handles, room \in Rooms : Connect(h, room)
    \/ \E h \in Handles : Disconnect(h)
    \/ \E h \in Handles : ChangeActivity(h, "snake")
    \/ \E h \in Handles : ResumeChange(h)
    \/ \E h \in Handles, type \in ActionTypes : ActivityMessage(h, type)

RegNext ==
    \/ \E h \in Handles, room \in Rooms : Connect(h, room)
    \/ \E h \in Handles : Disconnect(h)
    \/ \E h \in Handles, requested \in RequestedTypes : ChangeActivity(h, requested)
    \/ \E h \in Handles : ResumeChange(h)

(***************************************************************************)
(* YouTubeSyncActivity.  Times and positions are whole numbers of one     *)
(* clock unit, rates whole multiples of normal speed.                     *)
(***************************************************************************)
MaxTime == 3

\* how many mutations the timeline accepts before the model stops
MaxSeq == 4

NoUser == "nobody"

VideoIds == {"abc"}

SeekTargets == {2}

Rates == {1, 2}

\* the action dictionaries a client can send
Action(type, video_id, time, rate) ==
    [type |-> type, video_id |-> video_id, time |-> time, rate |-> rate]

Actions ==
    {Action("load_video", v, 0, 0) : v \in VideoIds}
    \cup {Action(t, "", 0, 0) : t \in {"play", "pause", "bogus"}}
    \cup {Action("seek", "", x, 0) : x \in SeekTargets}
    \cup {Action("set_rate", "", 0, r) : r \in Rates}

\* self.task, the asyncio.Task of the periodic loop: "pending" while the loop
\* sleeps between its turns, "cancelling" from cancel() until CancelledError is
\* thrown into the loop at its sleep, "cancelled" once the task has ended
cancel(task) == IF task = "pending" THEN "cancelling" ELSE task

\* YouTubeSyncActivity.__init__ at time t, then start()
NewYouTubeSyncActivity(t) ==
    [state |-> [video_id |-> "", current_time |-> 0, is_playing |-> FALSE,
                playback_rate |-> 1, last_action_time |-> t, master_user |-> NoUser],
     users |-> << >>,
     running |-> TRUE,
     task |-> "pending"]

\* _sync_loop: the body of "if self.state['is_playing']"
_sync_loop(S, t) ==
    [S EXCEPT !.state.current_time =
                  @ + (t - S.state.last_action_time) * S.state.playback_rate,
              !.state.last_action_time = t]

\* user_action: "Check if user has control permission"
Permitted(S, user_id) ==
    ~(S.state.master_user # NoUser /\ S.state.master_user # user_id)

\* user_action, the branches of "if action_type == ..."
ua_load_video(S, action, t) ==
    [S EXCEPT !.state.video_id = action.video_id,
              !.state.current_time = 0,
              !.state.is_playing = FALSE]

ua_play(S, action, t) ==
    [S EXCEPT !.state.is_playing = TRUE,
              !.state.last_action_time = t]

ua_pause_NoFreeze(S, action, t) ==
    [S EXCEPT !.state.is_playing = FALSE,
              !.state.last_action_time = t]

ua_pause(S, action, t) ==
    [S EXCEPT !.state.current_time =
                  IF S.state.is_playing
                  THEN @ + (t - S.state.last_action_time) * S.state.playback_rate
                  ELSE @,
              !.state.is_playing = FALSE,
              !.state.last_action_time = t]

ua_seek(S, action, t) ==
    [S EXCEPT !.state.current_time = action.time,
              !.state.last_action_time = t]

ua_set_rate(S, action, t) ==
    [S EXCEPT !.state.current_time =
                  IF S.state.is_playing
                  THEN @ + (t - S.state.last_action_time) * S.state.playback_rate
                  ELSE @,
              !.state.playback_rate = action.rate,
              !.state.last_action_time = t]

KnownTypes == {"load_video", "play", "pause", "seek", "set_rate"}

\* YouTubeSyncActivity.user_action at time t
user_action(S, user_id, action, t) ==
    IF ~Permitted(S, user_id) THEN S
    ELSE CASE action.type = "load_video" -> ua_load_video(S, action, t)
           [] action.type = "play" -> ua_play(S, action, t)
           [] action.type = "pause" -> ua_pause(S, action, t)
           [] action.type = "seek" -> ua_seek(S, action, t)
           [] action.type = "set_rate" -> ua_set_rate(S, action, t)
           [] OTHER -> S

\* YouTubeSyncActivity.add_user
add_user(S, user_id) ==
    LET S1 == [S EXCEPT !.users = IF \E i \in DOMAIN @ : @[i] = user_id
                                   THEN @ ELSE Append(@, user_id)]
    IN IF S1.state.master_user = NoUser
       THEN [S1 EXCEPT !.state.master_user = user_id]
       ELSE S1

\* YouTubeSyncActivity.remove_user
remove_user_KeepsMaster(S, user_id) ==
    [S EXCEPT !.users = SelectSeq(@, LAMBDA u : u # user_id)]

remove_user(S, user_id) ==
    LET S1 == [S EXCEPT !.users = SelectSeq(@, LAMBDA u : u # user_id)]
    IN IF S1.state.master_user = user_id
       THEN [S1 EXCEPT !.state.master_user =
                          IF S1.users # << >> THEN Head(S1.users) ELSE NoUser]
       ELSE S1

\* YouTubeSyncActivity.get_state_for_user at time t
get_state_for_user_Baseline(S, user_id, t) ==
    [type |-> "youtube_state",
     video_id |-> S.state.video_id,
     current_time |-> S.state.current_time,
     is_playing |-> S.state.is_playing,
     playback_rate |-> S.state.playback_rate,
     master_user |-> S.state.master_user,
     is_master |-> (user_id = S.state.master_user)]

get_state_for_user(S, user_id, t) ==
    [type |-> "youtube_state",
     video_id |-> S.state.video_id,
     current_time |-> IF S.state.is_playing
                      THEN S.state.current_time
                           + (t - S.state.last_action_time) * S.state.playback_rate
                      ELSE S.state.current_time,
     is_playing |-> S.state.is_playing,
     playback_rate |-> S.state.playback_rate,
     master_user |-> S.state.master_user,
     is_master |-> (user_id = S.state.master_user)]

\* calculate_sync_position, the synchronization algorithm of the design notes
calculate_sync_position(server_time, last_action_time, last_position, is_playing) ==
    IF ~is_playing
    THEN last_position
    ELSE last_position + (server_time - last_action_time)

\* state_report: a client's observation, taken over only when its timestamp is
\* strictly newer than that of the last accepted mutation
Reports ==
    [current_time : {1}, is_playing : BOOLEAN, playback_rate : {1},
     client_timestamp : 0..MaxTime]

Fresh(report) == report.client_timestamp > mutation.time

FreshOrEqual(report) == report.client_timestamp >= mutation.time

state_report_accepted_Stale(report) == FreshOrEqual(report)

state_report_accepted(report) == Fresh(report)

state_report(S, report, t) ==
    IF ~state_report_accepted(report) THEN S
    ELSE [S EXCEPT !.state.current_time = report.current_time,
                   !.state.is_playing = report.is_playing,
                   !.state.playback_rate = report.playback_rate,
                   !.state.last_action_time = t]

\* the position a viewer is shown at the present time
Eff(S) == get_state_for_user(S, NoUser, now).current_time

NoReport ==
    [current_time |-> 0, is_playing |-> FALSE, playback_rate |-> 0,
     client_timestamp |-> -1]

\* what the last step was and the report it carried, the last accepted
\* mutation, and the position shown just before the pause that this mutation
\* was or resumed from
Log(step, report, mut, frozen) ==
    [step |-> step, report |-> report, mut |-> mut, frozen |-> frozen]

Step(name) == [yt_log EXCEPT !.step = name, !.report = NoReport]

\* an accepted mutation gets the next sequence number and the present time
stamp_NoCount(m, t) == [seq |-> m.seq, time |-> t]

stamp(m, t) == [seq |-> m.seq + 1, time |-> t]

YtInit ==
    /\ buffering = {}
    /\ now = 0
    /\ yt = NewYouTubeSyncActivity(0)
    /\ mutation = [seq |-> 0, time |-> 0]
    /\ yt_bcast = 0
    /\ yt_log = Log("init", NoReport, "none", -1)

\* time passes
AdvanceClock ==
    /\ UNCHANGED <<regVars, snakeVars, clientVars>>
    /\ now < MaxTime
    /\ now' = now + 1
    /\ yt_bcast' = 0
    /\ yt_log' = Step("other")
    /\ UNCHANGED <<yt, mutation, buffering>>

\* one iteration of _sync_loop while the video plays
SyncLoop ==
    /\ UNCHANGED <<regVars, snakeVars, clientVars>>
    /\ yt.running
    /\ yt.task = "pending"
    /\ yt.state.is_playing
    /\ yt' = _sync_loop(yt, now)
    /\ yt_bcast' = 1
    /\ yt_log' = Step("other")
    /\ UNCHANGED <<now, mutation, buffering>>

\* a member joins the room of the timeline and is sent get_state_for_user
AddUser(u) ==
    /\ UNCHANGED <<regVars, snakeVars, clientVars>>
    /\ yt' = add_user(yt, u)
    /\ yt_bcast' = 0
    /\ yt_log' = Step("add_user")
    /\ UNCHANGED <<now, mutation, buffering>>

RemoveUser(u) ==
    /\ UNCHANGED <<regVars, snakeVars, clientVars>>
    /\ \E i \in DOMAIN yt.users : yt.users[i] = u
    /\ yt' = remove_user(yt, u)
    /\ yt_bcast' = 0
    /\ yt_log' = Step(IF yt.state.master_user = u THEN "master_left" ELSE "other")
    /\ UNCHANGED <<now, mutation, buffering>>

\* handle_activity_message: activity.user_action(user_id, data); an accepted
\* mutation is numbered and stamped
Accepted(u, action) == Permitted(yt, u) /\ action.type \in KnownTypes

UserAction(u, action) ==
    /\ UNCHANGED <<regVars, snakeVars, clientVars>>
    /\ mutation.seq < MaxSeq
    /\ yt' = user_action(yt, u, action, now)
    /\ yt_bcast' = IF Permitted(yt, u) THEN 1 ELSE 0
    /\ IF Accepted(u, action)
       THEN /\ mutation' = stamp(mutation, now)
            /\ yt_log' = Log(action.type, NoReport, action.type,
                             CASE action.type = "pause" -> Eff(yt)
                               [] action.type = "play" /\ yt_log.mut = "pause" ->
                                     yt_log.frozen
                               [] OTHER -> -1)
       ELSE /\ yt_log' = Step("refused")
            /\ UNCHANGED mutation
    /\ UNCHANGED <<now, buffering>>

\* handle_activity_message: a state_report from any member
StateReport(report) ==
    /\ UNCHANGED <<regVars, snakeVars, clientVars>>
    /\ mutation.seq < MaxSeq
    /\ yt' = state_report(yt, report, now)
    /\ IF state_report_accepted(report)
       THEN /\ mutation' = stamp(mutation, now)
            /\ yt_bcast' = 1
            /\ yt_log' = Log("state_report", report, "state_report", -1)
       ELSE /\ yt_bcast' = 0
            /\ yt_log' = [yt_log EXCEPT !.step = "stale_report", !.report = report]
            /\ UNCHANGED mutation
    /\ UNCHANGED <<now, buffering>>

\* buffer_start and buffer_end: a member raises or clears its buffering flag;
\* the hint goes to the room, the timeline and its mutation count stay
\* the hint that goes out after a change of the flags: soft-pause while some
\* member buffers, resume once nobody does
hint(B) == IF B # {} THEN "soft_pause" ELSE "resume"

\* the timeline after a member's flag was raised or cleared: as it was
buffer_change_AutoPause(S, B) == IF B # {} THEN [S EXCEPT !.state.is_playing = FALSE] ELSE S

buffer_change(S, B) == S

BufferStart(u) ==
    /\ UNCHANGED <<regVars, snakeVars, clientVars>>
    /\ \E i \in DOMAIN yt.users : yt.users[i] = u
    /\ buffering' = buffering \cup {u}
    /\ yt' = buffer_change(yt, buffering')
    /\ yt_bcast' = 1
    /\ yt_log' = Step(hint(buffering'))
    /\ UNCHANGED <<now, mutation>>

BufferEnd(u) ==
    /\ UNCHANGED <<regVars, snakeVars, clientVars>>
    /\ \E i \in DOMAIN yt.users : yt.users[i] = u
    /\ u \in buffering
    /\ buffering' = buffering \ {u}
    /\ yt' = buffer_change(yt, buffering')
    /\ yt_bcast' = 1
    /\ yt_log' = Step(hint(buffering'))
    /\ UNCHANGED <<now, mutation>>

YtNext ==
    \/ AdvanceClock
    \/ SyncLoop
    \/ \E u \in Users : AddUser(u)
    \/ \E u \in Users : RemoveUser(u)
    \/ \E u \in Users, action \in Actions : UserAction(u, action)
    \/ \E report \in Reports : StateReport(report)
    \/ \E u \in Users : BufferStart(u)
    \/ \E u \in Users : BufferEnd(u)

(***************************************************************************)
(* SnakeGameActivity.                                                     *)
(***************************************************************************)
\* config['width'] and config['height'] of the modelled game
grid_width == 5

grid_height == 5

\* how many ticks the game loop runs
MaxTicks == 2

\* class Direction
Direction == [UP |-> <<0, -1>>, DOWN |-> <<0, 1>>, LEFT |-> <<-1, 0>>, RIGHT |-> <<1, 0>>]

\* the direction strings a client sends, and str.upper() on them
DirectionStrings == {"up", "down", "Left", "right", "sideways"}

Upper ==
    [str \in DirectionStrings |->
        CASE str = "up" -> "UP"
          [] str = "down" -> "DOWN"
          [] str = "Left" -> "LEFT"
          [] str = "right" -> "RIGHT"
          [] str = "sideways" -> "SIDEWAYS"]

Position(x, y) == <<x, y>>

\* "pos in list"
InList(pos, list) == \E k \in DOMAIN list : list[k] = pos

\* list.remove(pos): the first occurrence
ListRemove(list, pos) ==
    LET k == CHOOSE k \in DOMAIN list :
                 list[k] = pos /\ \A m \in 1..(k - 1) : list[m] # pos
    IN SubSeq(list, 1, k - 1) \o SubSeq(list, k + 1, Len(list))

\* the outcomes of random.randint the model draws from: the spawn cells are all
\* of randint(2, width - 3) x randint(2, height - 3), the food cells a few
SpawnCells == {Position(x, y) : x \in 2..(grid_width - 3), y \in 2..(grid_height - 3)}

FoodCells == {Position(3, 2), Position(2, 1), Position(0, 0), Position(4, 4), Position(2, 2)}

\* SnakeGameActivity.__init__, then start()
\* winner is the field of SnakeState the client shows; null before a game ends
NoWinner == "null"

NewSnakeGameActivity ==
    [status |-> "waiting", snakes |-> << >>, food |-> << >>, scores |-> EmptyDict,
     users |-> {}, running |-> TRUE, task |-> "pending", waiters |-> {},
     winner |-> NoWinner]

\* the index of user_id's entry in the snakes dictionary, 0 when absent
SnakeIndex(G, user_id) ==
    IF \E i \in DOMAIN G.snakes : G.snakes[i].user_id = user_id
    THEN CHOOSE i \in DOMAIN G.snakes : G.snakes[i].user_id = user_id
    ELSE 0

\* _spawn_food: every outcome of the loop; none when no drawn cell is free
_spawn_food(G) ==
    {[G EXCEPT !.food = Append(@, pos)] :
        pos \in {c \in FoodCells :
                    /\ ~\E i \in DOMAIN G.snakes : InList(c, G.snakes[i].positions)
                    /\ ~InList(c, G.food)}}

\* the head the snake at index i moves to
NewHead(G, i) ==
    LET head == G.snakes[i].positions[1]
        direction == Direction[G.snakes[i].direction]
    IN Position(head[1] + direction[1], head[2] + direction[2])

\* _update_game_state: one iteration of "for user_id, snake in snakes.items()"
move_snake(G, i) ==
    LET snake == G.snakes[i]
        new_head == NewHead(G, i)
        dead == [G EXCEPT !.snakes[i].alive = FALSE]
        moved == [G EXCEPT !.snakes[i].positions = <<new_head>> \o @]
    IN IF ~snake.alive THEN {G}
       ELSE IF \/ new_head[1] < 0 \/ new_head[1] >= grid_width
               \/ new_head[2] < 0 \/ new_head[2] >= grid_height
            THEN {dead}
       ELSE IF InList(new_head, snake.positions) THEN {dead}
       ELSE IF \E j \in DOMAIN G.snakes :
                  j # i /\ InList(new_head, G.snakes[j].positions)
            THEN {dead}
       ELSE IF InList(new_head, moved.food)
            THEN _spawn_food([moved EXCEPT !.food = ListRemove(@, new_head),
                                          !.scores[snake.user_id] = @ + 1])
            ELSE {[moved EXCEPT !.snakes[i].positions = SubSeq(@, 1, Len(@) - 1)]}

RECURSIVE move_snakes(_, _)
move_snakes(G, i) ==
    IF i > Len(G.snakes) THEN {G}
    ELSE UNION {move_snakes(G1, i + 1) : G1 \in move_snake(G, i)}

\* _update_game_state: "Check if game should end"
check_game_end_NoneLeft(G) ==
    LET alive_snakes == {i \in DOMAIN G.snakes : G.snakes[i].alive}
    IN IF Cardinality(alive_snakes) < 1 /\ Len(G.snakes) > 1
       THEN [G EXCEPT !.status = "finished"]
       ELSE G

check_game_end(G) ==
    LET alive_snakes == {i \in DOMAIN G.snakes : G.snakes[i].alive}
    IN IF Cardinality(alive_snakes) <= 1 /\ Len(G.snakes) > 1
       THEN [G EXCEPT !.status = "finished"]
       ELSE G

\* the winner of a game that has just finished: the sole survivor, or nobody
set_winner(G) ==
    LET alive_snakes == {i \in DOMAIN G.snakes : G.snakes[i].alive}
    IN IF G.status = "finished" /\ Cardinality(alive_snakes) = 1
       THEN [G EXCEPT !.winner = G.snakes[CHOOSE i \in alive_snakes : TRUE].user_id]
       ELSE G

_update_game_state(G) == {set_winner(check_game_end(G1)) : G1 \in move_snakes(G, 1)}

\* _add_player
_add_player(G, user_id) ==
    IF SnakeIndex(G, user_id) # 0 THEN {G}
    ELSE UNION {
        LET G1 == [G EXCEPT !.snakes = Append(@, [user_id |-> user_id,
                                                  positions |-> <<spawn>>,
                                                  direction |-> "RIGHT",
                                                  alive |-> TRUE]),
                            !.scores = DictSet(@, user_id, 0)]
        IN IF G1.food = << >>
           THEN UNION {UNION {_spawn_food(G3) : G3 \in _spawn_food(G2)} :
                          G2 \in _spawn_food(G1)}
           ELSE {G1}
        : spawn \in SpawnCells}

\* _change_direction
_change_direction_NoReversalCheck(G, user_id, direction_str) ==
    LET i == SnakeIndex(G, user_id)
    IN IF i = 0 THEN G
       ELSE IF Upper[direction_str] \notin DOMAIN Direction THEN G
       ELSE [G EXCEPT !.snakes[i].direction = Upper[direction_str]]

_change_direction(G, user_id, direction_str) ==
    LET i == SnakeIndex(G, user_id)
    IN IF i = 0 THEN G
       ELSE IF Upper[direction_str] \notin DOMAIN Direction THEN G
       ELSE LET new_direction == Direction[Upper[direction_str]]
                current == Direction[G.snakes[i].direction]
            IN IF /\ new_direction[1] + current[1] = 0
                  /\ new_direction[2] + current[2] = 0
               THEN G
               ELSE [G EXCEPT !.snakes[i].direction = Upper[direction_str]]

\* SnakeGameActivity.user_action: every outcome
snake_user_action_StartAnytime(G, user_id, type, direction_str) ==
    CASE type = "join_game" -> _add_player(G, user_id)
      [] type = "change_direction" -> {_change_direction(G, user_id, direction_str)}
      [] type = "start_game" -> {[G EXCEPT !.status = "playing"]}
      [] OTHER -> {G}

snake_user_action(G, user_id, type, direction_str) ==
    CASE type = "join_game" -> _add_player(G, user_id)
      [] type = "change_direction" -> {_change_direction(G, user_id, direction_str)}
      [] type = "start_game" ->
            {IF G.status = "waiting" THEN [G EXCEPT !.status = "playing"] ELSE G}
      [] OTHER -> {G}

\* the direction opposite to each direction
Opposite == [UP |-> "DOWN", DOWN |-> "UP", LEFT |-> "RIGHT", RIGHT |-> "LEFT"]

\* whether direction_str asks user_id's snake to turn by 180 degrees
IsReversal(G, user_id, direction_str) ==
    /\ SnakeIndex(G, user_id) # 0
    /\ Upper[direction_str] \in DOMAIN Direction
    /\ Opposite[G.snakes[SnakeIndex(G, user_id)].direction] = Upper[direction_str]

\* the last operation; the user is recorded for a request to reverse
SnakeOp(op, user_id) == [op |-> op, user_id |-> user_id]

SnakeInit ==
    /\ game = NewSnakeGameActivity
    /\ ticks = 0
    /\ snake_last = SnakeOp("init", "")

JoinGame(u) ==
    /\ UNCHANGED <<regVars, ytVars, clientVars>>
    /\ game' \in snake_user_action(game, u, "join_game", "")
    /\ snake_last' = SnakeOp("user_action", "")
    /\ UNCHANGED ticks

ChangeDirection(u, direction_str) ==
    /\ UNCHANGED <<regVars, ytVars, clientVars>>
    /\ game' \in snake_user_action(game, u, "change_direction", direction_str)
    /\ snake_last' = IF IsReversal(game, u, direction_str)
                     THEN SnakeOp("reversal", u)
                     ELSE SnakeOp("user_action", "")
    /\ UNCHANGED ticks

StartGame(u) ==
    /\ UNCHANGED <<regVars, ytVars, clientVars>>
    /\ game' \in snake_user_action(game, u, "start_game", "")
    /\ snake_last' = SnakeOp("user_action", "")
    /\ UNCHANGED ticks

RestartGame(u) ==
    /\ UNCHANGED <<regVars, ytVars, clientVars>>
    /\ game' \in snake_user_action(game, u, "restart_game", "")
    /\ snake_last' = SnakeOp("user_action", "")
    /\ UNCHANGED ticks

\* one iteration of _game_loop while the game is playing
Tick ==
    /\ UNCHANGED <<regVars, ytVars, clientVars>>
    /\ game.running
    /\ game.task = "pending"
    /\ game.status = "playing"
    /\ ticks < MaxTicks
    /\ game' \in _update_game_state(game)
    /\ ticks' = ticks + 1
    /\ snake_last' = SnakeOp("tick", "")

\* how many ticks the longer game of FoodSpec runs
MaxFoodTicks == 4

\* one iteration of _game_loop while the game is playing, in the longer game
LongTick ==
    /\ UNCHANGED <<regVars, ytVars, clientVars>>
    /\ game.running
    /\ game.task = "pending"
    /\ game.status = "playing"
    /\ ticks < MaxFoodTicks
    /\ game' \in _update_game_state(game)
    /\ ticks' = ticks + 1
    /\ snake_last' = SnakeOp("tick", "")

\* a longer game of few moves: alice plays alone until bob joins
FoodNext ==
    \/ \E u \in Users : JoinGame(u)
    \/ \E u \in Users, direction_str \in {"up", "right", "down"} :
          ChangeDirection(u, direction_str)
    \/ StartGame("alice")
    \/ LongTick

\* ActivityManager.add_user and remove_user, which SnakeGameActivity inherits:
\* the keys of self.users
ActivityManager_add_user(G, user_id) == [G EXCEPT !.users = @ \cup {user_id}]

ActivityManager_remove_user(G, user_id) == [G EXCEPT !.users = @ \ {user_id}]

\* a member joins the room of the game
SnakeAddUser(u) ==
    /\ UNCHANGED <<regVars, ytVars, clientVars>>
    /\ u \notin game.users
    /\ game' = ActivityManager_add_user(game, u)
    /\ snake_last' = SnakeOp("add_user", "")
    /\ UNCHANGED ticks

\* a member leaves the room of the game
SnakeRemoveUser(u) ==
    /\ UNCHANGED <<regVars, ytVars, clientVars>>
    /\ u \in game.users
    /\ game' = ActivityManager_remove_user(game, u)
    /\ snake_last' = SnakeOp("remove_user", "")
    /\ UNCHANGED ticks

SnakeNext ==
    \/ \E u \in Users : JoinGame(u)
    \/ \E u \in Users, direction_str \in DirectionStrings :
          ChangeDirection(u, direction_str)
    \/ \E u \in Users : StartGame(u)
    \/ \E u \in Users : RestartGame(u)
    \/ Tick

\* the game in a room whose members come and go: only a member's connection
\* sends actions
SnakeRoomNext ==
    \/ \E u \in Users : SnakeAddUser(u)
    \/ \E u \in Users : SnakeRemoveUser(u)
    \/ \E u \in Users : u \in game.users /\ JoinGame(u)
    \/ \E u \in Users, direction_str \in DirectionStrings :
          u \in game.users /\ ChangeDirection(u, direction_str)
    \/ \E u \in Users : u \in game.users /\ StartGame(u)
    \/ \E u \in Users : u \in game.users /\ RestartGame(u)
    \/ Tick

(***************************************************************************)
(* The specifications.                                                    *)
(***************************************************************************)
(***************************************************************************)
(* stop() of the two activities, as change_room_activity calls it.         *)
(***************************************************************************)
\* the handlers that may be inside stop() of one activity at a time
Callers == {"switch_1", "switch_2"}

\* YouTubeSyncActivity.stop: the task is cancelled and stop() returns
YouTubeSyncActivity_stop(S) == [S EXCEPT !.running = FALSE, !.task = cancel(@)]

\* SnakeGameActivity.stop up to "await self.task": a task that has ended
\* raises CancelledError at once, otherwise the caller waits for its end
SnakeGameActivity_stop(G, caller) ==
    [G EXCEPT !.running = FALSE,
              !.task = cancel(@),
              !.waiters = IF G.task = "cancelled" THEN @ ELSE @ \cup {caller}]

StopYouTube ==
    /\ UNCHANGED <<regVars, snakeVars, clientVars>>
    /\ yt' = YouTubeSyncActivity_stop(yt)
    /\ yt_bcast' = 0
    /\ yt_log' = Step("stop_returned")
    /\ UNCHANGED <<now, mutation, buffering>>

\* the event loop runs the cancelled task: CancelledError at its sleep ends it
YouTubeTaskEnds ==
    /\ UNCHANGED <<regVars, snakeVars, clientVars>>
    /\ yt.task = "cancelling"
    /\ yt' = [yt EXCEPT !.task = "cancelled"]
    /\ yt_bcast' = 0
    /\ yt_log' = Step("other")
    /\ UNCHANGED <<now, mutation, buffering>>

StopSnake(caller) ==
    /\ UNCHANGED <<regVars, ytVars, clientVars>>
    /\ caller \notin game.waiters
    /\ game' = SnakeGameActivity_stop(game, caller)
    /\ snake_last' = SnakeOp(IF game.task = "cancelled" THEN "stop_returned"
                                                        ELSE "stop_awaits", caller)
    /\ UNCHANGED ticks

SnakeTaskEnds ==
    /\ UNCHANGED <<regVars, ytVars, clientVars>>
    /\ game.task = "cancelling"
    /\ game' = [game EXCEPT !.task = "cancelled"]
    /\ snake_last' = SnakeOp("task_ended", "")
    /\ UNCHANGED ticks

\* "await self.task" is over: stop() returns to its caller
StopSnakeReturns(caller) ==
    /\ UNCHANGED <<regVars, ytVars, clientVars>>
    /\ caller \in game.waiters
    /\ game.task = "cancelled"
    /\ game' = [game EXCEPT !.waiters = @ \ {caller}]
    /\ snake_last' = SnakeOp("stop_returned", caller)
    /\ UNCHANGED ticks

\* one master plays a video, one player plays the game, and either activity is
\* stopped at any moment
StopNext ==
    \/ AdvanceClock
    \/ SyncLoop
    \/ \E action \in Actions : action.type = "play" /\ UserAction("alice", action)
    \/ StopYouTube
    \/ YouTubeTaskEnds
    \/ JoinGame("alice")
    \/ StartGame("alice")
    \/ Tick
    \/ \E caller \in Callers : StopSnake(caller)
    \/ SnakeTaskEnds
    \/ \E caller \in Callers : StopSnakeReturns(caller)

(***************************************************************************)
(* The client's YouTubePlayer component (src/unnamed/part_004).  The       *)
(* embedded player announces each change of its state by an event that    *)
(* the component handles later; setTimeout callbacks are timers that fire  *)
(* at any later moment.  Playback positions are left out.                  *)
(***************************************************************************)
\* how many players the component creates
MaxPlayers == 2

\* how many state-change events may wait to be handled
MaxEvents == 2

PlayerStates == {"UNSTARTED", "ENDED", "PLAYING", "PAUSED", "BUFFERING"}

NoEvent == [state |-> "none", cause |-> "none"]

\* the events that follow playVideo(): PLAYING, at times after BUFFERING
PlayPaths == {<<"PLAYING">>, <<"BUFFERING", "PLAYING">>}

\* the events of a command or of the viewer's doing, appended to the queue
Enqueue(P, path, cause) ==
    [P EXCEPT !.events = @ \o [k \in DOMAIN path |-> [state |-> path[k], cause |-> cause]]]

\* setTimeout(callback, delay)
setTimeout(P, kind) == [P EXCEPT !.timers = @ \cup {[kind |-> kind, gen |-> P.gen]}]

\* the refs and state of a mounted component without a video
YtpInit ==
    ytp = [videoId |-> "none", gen |-> 0, ready |-> FALSE, isPlayerReady |-> FALSE,
           state |-> "UNSTARTED", events |-> << >>,
           isInitialSync |-> TRUE, isProgrammaticChange |-> FALSE,
           lastKnownState |-> "UNSTARTED", timers |-> {}, synced |-> {},
           isPlaying |-> FALSE, buffering_sent |-> FALSE,
           calls |-> {}, event |-> NoEvent]

\* a step starts with no callback made and no event handled
Fresh_ytp == [ytp EXCEPT !.calls = {}, !.event = NoEvent]

\* "Sync player state with backend": the effect's play/pause part
sync_effect(P, path) ==
    IF ~P.isPlayerReady \/ P.gen = 0 \/ ~P.ready THEN P
    ELSE IF P.isPlaying /\ P.state # "PLAYING"
    THEN setTimeout(Enqueue([P EXCEPT !.isProgrammaticChange = TRUE], path, "sync"),
                    "programmatic")
    ELSE IF ~P.isPlaying /\ P.state = "PLAYING"
    THEN setTimeout(Enqueue([P EXCEPT !.isProgrammaticChange = TRUE], <<"PAUSED">>, "sync"),
                    "programmatic")
    ELSE P

\* the video id changes: "Initialize player" destroys the player and creates
\* the next one, "Reset initial sync flag" sets the flag
LoadVideo(v) ==
    /\ UNCHANGED <<regVars, ytVars, snakeVars, app>>
    /\ v # ytp.videoId
    /\ ytp.gen < MaxPlayers
    /\ ytp' = [Fresh_ytp EXCEPT !.videoId = v, !.gen = @ + 1, !.ready = FALSE,
                                !.state = "UNSTARTED", !.events = << >>,
                                !.isInitialSync = TRUE]

\* onReady of the current player, then the sync effect when isPlayerReady
\* has changed
PlayerReady(path) ==
    /\ UNCHANGED <<regVars, ytVars, snakeVars, app>>
    /\ ytp.gen > 0
    /\ ~ytp.ready
    /\ LET P1 == [Fresh_ytp EXCEPT !.ready = TRUE, !.isPlayerReady = TRUE]
           P2 == IF ~P1.isPlaying THEN Enqueue(P1, <<"PAUSED">>, "ready") ELSE P1
           P3 == setTimeout(P2, "initial_sync")
       IN ytp' = IF ytp.isPlayerReady THEN P3 ELSE sync_effect(P3, path)

\* the server state's is_playing changes: the prop changes, the sync effect runs
ServerUpdate(is_playing, path) ==
    /\ UNCHANGED <<regVars, ytVars, snakeVars, app>>
    /\ is_playing # ytp.isPlaying
    /\ Len(ytp.events) < MaxEvents
    /\ ytp' = sync_effect([Fresh_ytp EXCEPT !.isPlaying = is_playing], path)

\* the viewer uses the native controls, or the network stalls
ViewerActs(path) ==
    /\ UNCHANGED <<regVars, ytVars, snakeVars, app>>
    /\ ytp.ready
    /\ ytp.events = << >>
    /\ path[1] # ytp.state
    /\ ytp' = Enqueue(Fresh_ytp, path, "user")

\* a setTimeout callback runs: the end of the initial sync of the player that
\* set it (whose getCurrentTime() throws once it is destroyed), or the reset
\* of isProgrammaticChange
TimerFires(t) ==
    /\ UNCHANGED <<regVars, ytVars, snakeVars, app>>
    /\ t \in ytp.timers
    /\ ytp' = IF t.kind = "initial_sync"
              THEN [Fresh_ytp EXCEPT !.timers = @ \ {t},
                                     !.isInitialSync = FALSE,
                                     !.synced = @ \cup {t.gen},
                                     !.lastKnownState =
                                         IF t.gen = ytp.gen THEN ytp.state ELSE @]
              ELSE [Fresh_ytp EXCEPT !.timers = @ \ {t},
                                     !.isProgrammaticChange = FALSE]

\* onStateChange
onStateChange(P, playerState) ==
    IF P.isInitialSync THEN [P EXCEPT !.lastKnownState = playerState]
    ELSE IF P.isProgrammaticChange THEN [P EXCEPT !.lastKnownState = playerState]
    ELSE
    LET moved == P.lastKnownState # playerState
        cb == (IF moved /\ playerState = "PLAYING" THEN {"onPlay"} ELSE {})
              \cup (IF moved /\ playerState = "PAUSED" THEN {"onPause"} ELSE {})
        bf == CASE playerState \in {"PLAYING", "PAUSED", "ENDED"} -> {"onBuffering(false)"}
                [] playerState = "BUFFERING" -> {"onBuffering(true)"}
                [] OTHER -> {}
    IN [P EXCEPT !.lastKnownState = playerState,
                 !.calls = cb \cup bf,
                 !.buffering_sent = IF bf = {} THEN @ ELSE playerState = "BUFFERING"]

\* the player's next state-change event reaches the component
StateChange ==
    /\ UNCHANGED <<regVars, ytVars, snakeVars, app>>
    /\ ytp.events # << >>
    /\ LET e == Head(ytp.events)
       IN ytp' = onStateChange([Fresh_ytp EXCEPT !.events = Tail(@),
                                                !.state = e.state,
                                                !.event = e],
                               e.state)

PlayerNext ==
    \/ \E v \in {"v1", "v2"} : LoadVideo(v)
    \/ \E path \in PlayPaths : PlayerReady(path)
    \/ \E is_playing \in BOOLEAN, path \in PlayPaths : ServerUpdate(is_playing, path)
    \/ \E path \in PlayPaths \cup {<<"PAUSED">>, <<"ENDED">>} : ViewerActs(path)
    \/ \E t \in ytp.timers : TimerFires(t)
    \/ StateChange

(***************************************************************************)
(* The client's App (src/frontend/src/App.tsx): connect() installs         *)
(* ws.onmessage, a closure over the activityState of the render in which   *)
(* connect() was called.  A message is a record holding the fields that    *)
(* are present in its JSON.                                                *)
(***************************************************************************)
NoMessage == [type |-> "none"]

\* useState<ActivityState | null>(null)
null == [type |-> "null", activity_type |-> "null"]

YouTubeStates ==
    [video_id : {"v1", "v2"}, current_time : {0, 5}, is_playing : BOOLEAN,
     playback_rate : {1, 2}]

\* the activity_state messages of the server
ActivityStates ==
    [type : {"activity_state"}, activity_type : {"youtube"}, state : YouTubeStates]
    \cup {[type |-> "activity_state", activity_type |-> "snake",
           state |-> [status |-> "waiting"]]}

\* the delta messages of the youtube activity, each with the fields it changes
Deltas ==
    {[type |-> "youtube_play", is_playing |-> TRUE],
     [type |-> "youtube_pause", is_playing |-> FALSE],
     [type |-> "youtube_seek", current_time |-> 5],
     [type |-> "youtube_rate_changed", playback_rate |-> 2],
     [type |-> "youtube_video_loaded", video_id |-> "v2", current_time |-> 0],
     [type |-> "youtube_sync_update", video_id |-> "v1", current_time |-> 5,
      is_playing |-> TRUE, playback_rate |-> 1]}

StateFields == {"video_id", "current_time", "is_playing", "playback_rate"}

\* update.f ?? currentState.f for each field f of fields
Merge(currentState, update, fields) ==
    [f \in DOMAIN currentState |->
        IF f \in fields /\ f \in DOMAIN update THEN update[f] ELSE currentState[f]]

\* the updater passed to setActivityState in the delta branch
merge_delta(prev, message) ==
    IF prev = null \/ prev.activity_type # "youtube" THEN prev
    ELSE IF message.type = "youtube_video_loaded"
    THEN [prev EXCEPT !.state = Merge(@, message, {"video_id", "current_time"})]
    ELSE [prev EXCEPT !.state = Merge(@, message, StateFields)]

\* ws.onmessage of a connection whose closure holds activityState `captured`
onmessage(A, captured, message) ==
    IF message.type = "activity_state"
    THEN [A EXCEPT !.activityState = message]
    ELSE IF captured # null /\ captured.activity_type = "youtube"
    THEN [A EXCEPT !.activityState = merge_delta(@, message)]
    ELSE A

AppInit ==
    app = [connected |-> FALSE, activityState |-> null, captured |-> null,
           shown |-> "null", received |-> NoMessage]

\* connect(): the socket opens, onmessage is installed
AppConnect ==
    /\ UNCHANGED <<regVars, ytVars, snakeVars, ytp>>
    /\ ~app.connected
    /\ app' = [app EXCEPT !.connected = TRUE, !.captured = app.activityState,
                          !.shown = "null", !.received = NoMessage]

\* disconnect(), ws.onclose
AppDisconnect ==
    /\ UNCHANGED <<regVars, ytVars, snakeVars, ytp>>
    /\ app.connected
    /\ app' = [app EXCEPT !.connected = FALSE, !.received = NoMessage]

\* a message of the server arrives
Receive(message) ==
    /\ UNCHANGED <<regVars, ytVars, snakeVars, ytp>>
    /\ app.connected
    /\ message.type = "activity_state" \/ app.shown = "youtube"
    /\ app' = [onmessage(app, app.captured, message) EXCEPT
                  !.received = message,
                  !.shown = IF message.type = "activity_state"
                            THEN message.activity_type ELSE @]

AppNext ==
    \/ AppConnect
    \/ AppDisconnect
    \/ \E message \in ActivityStates \cup Deltas : Receive(message)

Init == RegInit /\ YtInit /\ SnakeInit /\ YtpInit /\ AppInit

Next == RegNext

Spec == Init /\ [][Next]_vars

TimelineSpec == Init /\ [][YtNext]_vars

SnakeSpec == Init /\ [][SnakeNext]_vars

SnakeRoomSpec == Init /\ [][SnakeRoomNext]_vars

SwitchSpec == Init /\ [][SwitchNext]_vars

StopSpec == Init /\ [][StopNext]_vars

RoomsSpec == Init /\ [][RoomsNext]_vars

FoodSpec == Init /\ [][FoodNext]_vars

FaultSpec == Init /\ [][FaultNext]_vars

PlayerSpec == Init /\ [][PlayerNext]_vars

AppSpec == Init /\ [][AppNext]_vars

\* a scheduled removal is carried out
BroadcastSpec ==
    Init /\ [][BroadcastNext]_vars /\ \A h \in Handles : WF_vars(Reap(h))

(***************************************************************************)
(* Properties of the registry (specification Spec).                       *)
(***************************************************************************)
MembersIn(r) == {h \in DOMAIN manager.client_info : manager.client_info[h].room = r}

UsernamesIn(r) == {manager.client_info[h].username : h \in MembersIn(r)}

HostOf(r) == DictGet(activity_registry.room_hosts, r, "")

SentTypes == {m.type : m \in sent}

\* C1: a room id is in the registry exactly when some connection is in that
\* room, in every state: a room never outlives the leave of its last member.
C1_RoomIffMembers ==
    \A r \in Rooms :
        /\ (r \in DOMAIN manager.rooms) <=> (MembersIn(r) # {})
        /\ r \in DOMAIN manager.rooms => manager.rooms[r] = MembersIn(r)

\* the last step was the leave of a room's last member, and the room is gone
C1_Witness ==
    /\ last.op = "disconnect"
    /\ last.room \in Rooms
    /\ last.room \notin DOMAIN manager.rooms
    /\ manager.rooms # EmptyDict

\* C2: in every state, so also right after any leave, the host of an existing
\* room is the username of one of its members, and a room that does not exist
\* has no host.
C2_HostIsMember ==
    \A r \in Rooms :
        IF r \in DOMAIN manager.rooms
        THEN HostOf(r) \in UsernamesIn(r)
        ELSE r \notin DOMAIN activity_registry.room_hosts

\* the last step was the leave of a host whose room lives on under a new host
C2_Witness ==
    /\ last.op = "disconnect"
    /\ last.room \in DOMAIN manager.rooms
    /\ "host_changed" \in SentTypes
    /\ HostOf(last.room) # UserOf[last.h]

\* C4: a step that is a change_activity from a connection whose username is
\* not the room's host changes neither the registry nor any activity object,
\* suspends nothing and writes exactly one message, an activity_change_error to
\* the requester.
C4_NonHostSwitchRejected ==
    [][(/\ last'.op = "change_activity"
        /\ HostOf(last'.room) # UserOf[last'.h])
       => /\ activity_registry' = activity_registry
          /\ detached' = detached
          /\ pending' = pending
          /\ \E text \in {"Only the room host can change activities",
                          "Invalid activity type"} :
                sent' = {Msg(last'.h, "activity_change_error", <<text>>)}]_vars

\* a member who is not the host has just been refused
C4_Witness ==
    /\ last.op = "change_activity"
    /\ HostOf(last.room) # UserOf[last.h]
    /\ sent = {Msg(last.h, "activity_change_error",
                   <<"Only the room host can change activities">>)}
    /\ Cardinality(MembersIn(last.room)) > 1

StartedIn(r) ==
    (IF get_room_activity(World, r).running THEN 1 ELSE 0)
    + DetachedCount([k \in {x \in DOMAIN detached : x[1] = r} |-> detached[k]])

\* C5: every existing room has an activity object in the registry, and at no
\* time do two started activity objects belong to the same room.
C5_OneInstancePerRoom ==
    \A r \in Rooms :
        /\ r \in DOMAIN manager.rooms => r \in DOMAIN activity_registry.rooms
        /\ StartedIn(r) <= 1

C8_PausePlayContinuous ==
    (yt_log.step = "play" /\ yt_log.frozen # -1) => Eff(yt) = yt_log.frozen

\* a video that had played at double rate for some time was paused, stayed
\* paused for some time and has just been resumed
C8_Witness ==
    /\ yt_log.step = "play"
    /\ yt_log.frozen = 4
    /\ yt.state.playback_rate = 2
    /\ yt.state.is_playing
    /\ Eff(yt) = yt_log.frozen

\* the model of the effective position
EffectivePosition(S, t) ==
    IF S.state.is_playing
    THEN S.state.current_time + S.state.playback_rate * (t - S.state.last_action_time)
    ELSE S.state.current_time

\* C9: at every query time both computations of the position, the one sent in
\* youtube_state and calculate_sync_position, return baseline_position +
\* rate * (now - baseline_time) while playing and baseline_position otherwise.
C9_EffectivePositionFormula ==
    /\ get_state_for_user(yt, NoUser, now).current_time = EffectivePosition(yt, now)
    /\ calculate_sync_position(now, yt.state.last_action_time,
                               yt.state.current_time, yt.state.is_playing)
          = EffectivePosition(yt, now)

\* C10: an accepted action other than seek and load_video leaves the position
\* shown unchanged: the position right after it equals the one right before.
C10_NoJumpExceptSeek ==
    [][\A u \in Users, action \in Actions :
          (/\ UserAction(u, action)
           /\ Accepted(u, action)
           /\ action.type \notin {"seek", "load_video"})
          => get_state_for_user(yt', NoUser, now').current_time = Eff(yt)]_vars

(***************************************************************************)
(* Properties of the snake game (specification SnakeSpec).                *)
(***************************************************************************)
InGrid(pos) ==
    /\ pos[1] >= 0 /\ pos[1] < grid_width
    /\ pos[2] >= 0 /\ pos[2] < grid_height

\* C6: in a tick, two living snakes that face different directions and whose
\* new heads are the same cell of the grid, a cell no body occupied before the
\* tick, are both alive after the tick.
C6_SameCellBothSurvive ==
    [][Tick =>
        \A i, j \in DOMAIN game.snakes :
            (/\ i # j
             /\ game.snakes[i].alive /\ game.snakes[j].alive
             /\ game.snakes[i].direction # game.snakes[j].direction
             /\ NewHead(game, i) = NewHead(game, j)
             /\ InGrid(NewHead(game, i))
             /\ \A k \in DOMAIN game.snakes :
                    ~InList(NewHead(game, i), game.snakes[k].positions))
            => game'.snakes[i].alive /\ game'.snakes[j].alive]_vars

\* C7: a step that is a change_direction asking a snake to turn by 180 degrees
\* changes nothing in the game, and a tick changes no snake's direction: at the
\* next tick the snake faces as it did before the request.
C7_ReversalRejected ==
    /\ [][snake_last'.op = "reversal" => game' = game]_vars
    /\ [][snake_last'.op = "tick" =>
            \A i \in DOMAIN game.snakes :
                game'.snakes[i].direction = game.snakes[i].direction]_vars

\* in a running game a living snake of two cells has just asked to reverse
C7_Witness ==
    /\ snake_last.op = "reversal"
    /\ game.status = "playing"
    /\ ticks >= 1
    /\ LET snake == game.snakes[SnakeIndex(game, snake_last.user_id)]
       IN /\ snake.alive
          /\ Len(snake.positions) >= 2
          /\ snake.direction # "RIGHT"

YtUsers(S) == {S.users[i] : i \in DOMAIN S.users}

\* C12: the master is one of the activity's current users, or null exactly
\* when there are none; the first user to join becomes the master, and the
\* master changes only when there was none or it has just left.
C12_MasterIsMember ==
    /\ [](IF YtUsers(yt) = {}
          THEN yt.state.master_user = NoUser
          ELSE yt.state.master_user \in YtUsers(yt))
    /\ [][(yt.users = << >> /\ yt'.users # << >>)
            => yt'.state.master_user = yt'.users[1]]_vars
    /\ [][yt'.state.master_user # yt.state.master_user
            => \/ yt.state.master_user = NoUser
               \/ yt.state.master_user \notin YtUsers(yt')]_vars

\* the master has just left and the remaining user is the master
C12_Witness ==
    /\ yt_log.step = "master_left"
    /\ yt.users # << >>
    /\ yt.state.master_user = yt.users[1]

(***************************************************************************)
(* The snake game among the room's members (specification SnakeRoomSpec). *)
(***************************************************************************)
\* C13: in every state each player of the game is a current user of the
\* activity: a player who has left is no longer among the snakes.
C13_PlayersAreMembers ==
    \A i \in DOMAIN game.snakes : game.snakes[i].user_id \in game.users

(***************************************************************************)
(* Further properties of the registry (specification Spec).               *)
(***************************************************************************)
\* what a join step does besides telling the joiner the host: the room and
\* its activity exist afterwards, a new room gets a running chat and the
\* joiner as host with role host, an existing room keeps its host and a
\* joiner under another name gets role participant
JoinRoles ==
    LET r == last'.room
        h == last'.h
        host == DictGet(activity_registry'.room_hosts, r, "")
    IN /\ r \in DOMAIN manager'.rooms
       /\ r \in DOMAIN activity_registry'.rooms
       /\ \E m \in sent' :
             /\ m.to = h /\ m.type = "role_assigned"
             /\ IF r \notin DOMAIN manager.rooms
                THEN /\ host = UserOf[h]
                     /\ m.info[1] = HOST
                     /\ activity_registry'.rooms[r] = NewActivity(r, "chat")
                ELSE /\ host = HostOf(r)
                     /\ UserOf[h] # host => m.info[1] = PARTICIPANT

\* the role_assigned message of a join step names the room's host
JoinTellsHost ==
    \E m \in sent' :
        /\ m.to = last'.h /\ m.type = "role_assigned"
        /\ \E k \in DOMAIN m.info :
              m.info[k] = DictGet(activity_registry'.room_hosts, last'.room, "")

\* C14: a join creates an absent room with its default activity and makes the
\* joiner host with role host; a later joiner gets role participant and the
\* host stays; and every joiner is told the room's host.
C14_JoinRoleAndHost ==
    [][last'.op = "connect" => JoinRoles /\ JoinTellsHost]_vars

\* C15: a leave step of a connection under the host's username that leaves
\* members behind makes, in that step, the username of the earliest remaining
\* joiner the host.
C15_HostToEarliestJoiner ==
    [][(/\ last'.op = "disconnect"
        /\ last'.room \in DOMAIN manager'.rooms
        /\ HostOf(last'.room) = UserOf[last'.h])
       => DictGet(activity_registry'.room_hosts, last'.room, "")
            = manager'.client_info[Head(join_order'[last'.room])].username]_vars

\* alice joined r1 first, then bob; alice has just left and bob is the host
C15_Witness ==
    /\ last = Op("disconnect", "h1", "r1")
    /\ join_order["r1"] = <<"h2">>
    /\ HostOf("r1") = "bob"
    /\ "host_changed" \in SentTypes

\* C16: a leave step for a connection that is not registered changes neither
\* members, rooms, hosts, roles nor activities and writes no message.
C16_LeaveIdempotent ==
    [][(last'.op = "disconnect" /\ last'.h \notin DOMAIN manager.client_info)
       => /\ manager' = manager
          /\ activity_registry' = activity_registry
          /\ detached' = detached
          /\ join_order' = join_order
          /\ pending' = pending
          /\ sent' = {}]_vars

\* h1 has left r1, where bob stays, and has just left once more
C16_Witness ==
    /\ last.op = "disconnect" /\ last.h = "h1" /\ last.again
    /\ "h1" \notin DOMAIN manager.client_info
    /\ join_order["r1"] = <<"h2">>
    /\ HostOf("r1") = "bob"
    /\ sent = {}

\* C17: whenever a room's host changes from one member to another because the
\* host left, the same step sends host_changed, naming the new host, to every
\* member who remains in the room.
HostChanged(r) ==
    /\ r \in DOMAIN activity_registry.room_hosts
    /\ r \in DOMAIN activity_registry'.room_hosts
    /\ activity_registry'.room_hosts[r] # activity_registry.room_hosts[r]

Delivered(r, type, exclude_user) ==
    \A h \in MembersIn(r) :
        LET m == Msg(h, type, <<UserOf[last'.h]>>)
        IN IF manager.client_info[h].username = exclude_user
           THEN m \notin sent' /\ (h \in doomed' <=> h \in doomed)
           ELSE IF h \in broken
           THEN m \notin sent' /\ h \in doomed'
           ELSE m \in sent' /\ (h \in doomed' <=> h \in doomed)

VoiceBroadcast ==
    last'.op \in {"voice_join", "voice_leave"} =>
        /\ Delivered(last'.room,
                     IF last'.op = "voice_join" THEN "voice:peer_joined" ELSE "voice:peer_left",
                     UserOf[last'.h])
        /\ manager' = manager
        /\ \A m \in sent' : m.to \in MembersIn(last'.room)

LeaveBroadcast ==
    (last'.op \in {"disconnect", "reap"} /\ last'.room \in DOMAIN manager'.rooms) =>
        \A h \in manager'.rooms[last'.room] :
            IF h \in broken
            THEN h \in doomed' /\ \A m \in sent' : m.to # h
            ELSE Msg(h, "user_left", <<UserOf[last'.h]>>) \in sent'

SwitchAnnounces ==
    (last'.op \in {"change_activity", "resume_change"} /\ "activity_changed" \in {m.type : m \in sent'}) =>
        LET r == last'.room
            h == last'.h
        IN /\ h \in DOMAIN snapshots'
           /\ activity_registry'.rooms[r] = NewActivity(r, snapshots'[h].type)
           /\ sent' = {Msg(m, "activity_changed", <<snapshots'[h].type, UserOf[h]>>) :
                          m \in manager'.rooms[r]}

SwitchSnapshots ==
    \A h \in DOMAIN snapshots :
        (~snapshots[h].failed /\ (h \notin DOMAIN snapshots' \/ snapshots'[h].failed)) =>
            DictGet(manager'.rooms, snapshots[h].room, {}) \subseteq snapshots[h].done

C19_SwitchOrderAndSnapshots == [][SwitchAnnounces /\ SwitchSnapshots]_vars

\* C20: when stop() returns, the activity's periodic task has ended, for the
\* video timeline as for the game; once stop() was called no turn of the
\* periodic loop changes the state or broadcasts; and a stop() of a stopped
\* activity changes nothing.
StopReturnsAfterTaskEnded ==
    /\ yt_log.step = "stop_returned" => yt.task = "cancelled"
    /\ snake_last.op = "stop_returned" => game.task = "cancelled"

NoTurnAfterStop ==
    /\ (~yt.running /\ yt_log'.step = "other") => yt'.state = yt.state /\ yt_bcast' = 0
    /\ (~game.running) => snake_last'.op # "tick"

SecondStopNoOp ==
    /\ (yt_log'.step = "stop_returned" /\ ~yt.running) => yt' = yt
    /\ (snake_last'.op \in {"stop_returned", "stop_awaits"} /\ ~game.running) =>
           [game' EXCEPT !.waiters = {}] = [game EXCEPT !.waiters = {}]

C20_StopAwaitsTask ==
    /\ []StopReturnsAfterTaskEnded
    /\ [][NoTurnAfterStop /\ SecondStopNoOp]_vars

SnapshotFollowsClock ==
    now' # now =>
        get_state_for_user(yt', NoUser, now').current_time =
            get_state_for_user(yt, NoUser, now).current_time
              + (IF yt.state.is_playing THEN yt.state.playback_rate * (now' - now) ELSE 0)

JoinPerturbsNobody ==
    (yt_log'.step = "add_user" /\ yt.users # << >>) =>
        /\ yt'.state = yt.state
        /\ \A v \in YtUsers(yt) :
               get_state_for_user(yt', v, now') = get_state_for_user(yt, v, now)

C22_SnapshotFreshAndPure == [][SnapshotFollowsClock /\ JoinPerturbsNobody]_vars

\* bob has just joined alice, whose video has played at double rate for a
\* while since the baseline was stored: his snapshot is ahead of the baseline
C22_Witness ==
    /\ yt_log.step = "add_user"
    /\ yt.users = <<"alice", "bob">>
    /\ yt.state.is_playing
    /\ yt.state.playback_rate = 2
    /\ now > yt.state.last_action_time
    /\ get_state_for_user(yt, "bob", now).current_time > yt.state.current_time

\* C23: the status of the game changes only from waiting to playing, by a
\* start_game action, from playing to finished, by the end-of-game rule of a
\* tick, and from finished to waiting, by a restart_game action.
C23_StatusCycle ==
    [][game'.status # game.status =>
          \/ /\ game.status = "waiting" /\ game'.status = "playing"
             /\ \E u \in Users : StartGame(u)
          \/ /\ game.status = "playing" /\ game'.status = "finished"
             /\ Tick
          \/ /\ game.status = "finished" /\ game'.status = "waiting"
             /\ \E u \in Users : RestartGame(u)]_vars

\* a game of two players was started and a tick has ended it
C23_Witness ==
    /\ game.status = "finished"
    /\ snake_last.op = "tick"
    /\ Len(game.snakes) = 2

\* whether connection h is registered for room r in manager m
InRoom(m, h, r) == h \in DOMAIN m.client_info /\ m.client_info[h].room = r

\* everything the server keeps for room r
RoomView(r) ==
    [members |-> DictGet(manager.rooms, r, {}),
     exists |-> r \in DOMAIN manager.rooms,
     join_order |-> join_order[r],
     host |-> DictGet(activity_registry.room_hosts, r, ""),
     roles |-> DictGet(activity_registry.user_roles, r, EmptyDict),
     activity |-> DictGet(activity_registry.rooms, r, None),
     lost |-> [t \in ActivityType |-> DictGet(detached, <<r, t>>, 0)]]

\* C24: a step in one room leaves every other room's members, join order,
\* host, roles, activity object with its state and lost activities as they
\* were, and each message of the step goes to a connection that is in the
\* step's room before or after the step.
C24_RoomsIsolated ==
    [][/\ \A q \in Rooms \ {last'.room} : RoomView(q)' = RoomView(q)
       /\ \A m \in sent' :
              InRoom(manager, m.to, last'.room) \/ InRoom(manager', m.to, last'.room)]_vars

\* r2 has a member and a game that is being played; in r1 bob's action has
\* just been broadcast to the two members of r1
C24_Witness ==
    /\ last.op = "activity_message" /\ last.h = "h2" /\ last.room = "r1"
    /\ DictGet(manager.rooms, "r1", {}) = {"h1", "h2"}
    /\ DictGet(manager.rooms, "r2", {}) = {"h3"}
    /\ {m.to : m \in sent} = {"h1", "h2"}
    /\ DictGet(activity_registry.rooms, "r2", None).status = "playing"
    /\ DictGet(activity_registry.rooms, "r2", None).turns = 1

(***************************************************************************)
(* Further properties of the snake game (specification SnakeSpec).        *)
(***************************************************************************)
\* the game with the entries of state['snakes'] in the opposite order: the
\* order "for user_id, snake in self.state['snakes'].items()" takes them in
Reordered(G) ==
    [G EXCEPT !.snakes = [k \in DOMAIN G.snakes |-> G.snakes[Len(G.snakes) + 1 - k]]]

\* what a tick leaves of each player, and the status
Outcome(G) ==
    [status |-> G.status,
     players |-> {[user_id |-> G.snakes[k].user_id,
                   positions |-> G.snakes[k].positions,
                   alive |-> G.snakes[k].alive,
                   score |-> G.scores[G.snakes[k].user_id]] : k \in DOMAIN G.snakes}]

\* C25: the bodies, alive flags, scores and status a tick of a playing game
\* produces are the same when the players are processed in the opposite order.
C25_TickOrderIndependent ==
    game.status = "playing" =>
        {Outcome(G1) : G1 \in _update_game_state(game)} =
            {Outcome(G1) : G1 \in _update_game_state(Reordered(game))}

\* whether the snake at index i of G, moved by one cell, leaves the grid or
\* enters a cell of its own body or of another snake's body as they are in G
HitsPreMoveBody(G, i) ==
    \/ ~InGrid(NewHead(G, i))
    \/ InList(NewHead(G, i), G.snakes[i].positions)
    \/ \E j \in DOMAIN G.snakes : j # i /\ InList(NewHead(G, i), G.snakes[j].positions)

\* C26: in a tick a living snake dies exactly when its new head is outside
\* the grid, in its own body or in another snake's body as the bodies were
\* before the tick (those of snakes killed in this tick included); a snake
\* that was dead before the tick keeps its body and its score.
C26_KilledByPreMoveBodies ==
    [][snake_last'.op = "tick" =>
        \A i \in DOMAIN game.snakes :
            /\ game.snakes[i].alive =>
                  (~game'.snakes[i].alive <=> HitsPreMoveBody(game, i))
            /\ ~game.snakes[i].alive =>
                  /\ game'.snakes[i] = game.snakes[i]
                  /\ game'.scores[game.snakes[i].user_id] =
                         game.scores[game.snakes[i].user_id]]_vars

\* the snakes of G that are alive
AliveSnakes(G) == {i \in DOMAIN G.snakes : G.snakes[i].alive}

C28_FoodRule ==
    [][snake_last'.op = "tick" =>
        /\ \A i \in DOMAIN game.snakes :
               (game.snakes[i].alive /\ game'.snakes[i].alive) =>
                  LET grown == Len(game'.snakes[i].positions) - Len(game.snakes[i].positions)
                      scored == game'.scores[game.snakes[i].user_id]
                                   - game.scores[game.snakes[i].user_id]
                  IN /\ grown = scored
                     /\ grown \in {0, 1}
                     /\ InList(NewHead(game, i), game.food) => grown = 1
        /\ \A k \in DOMAIN game'.food :
               /\ \A i \in DOMAIN game'.snakes :
                      ~InList(game'.food[k], game'.snakes[i].positions)
               /\ \A m \in DOMAIN game'.food : game'.food[m] = game'.food[k] => m = k]_vars

\* whether no body and no food of G is on cell pos
FreeCell(G, pos) ==
    /\ \A i \in DOMAIN G.snakes : ~InList(pos, G.snakes[i].positions)
    /\ ~InList(pos, G.food)

\* C29: a join_game step changes the game only while the status is waiting,
\* and the player it adds stands on a cell that held no body and no food.
C29_JoinOnlyWhileWaiting ==
    [][\A u \in Users :
          (JoinGame(u) /\ game' # game) =>
              /\ game.status = "waiting"
              /\ LET new == game'.snakes[Len(game'.snakes)]
                 IN /\ new.user_id = u
                    /\ FreeCell(game, new.positions[1])]_vars

\* C30: a start_game step sets the status to playing when the status is
\* waiting and there is a player, and changes nothing otherwise.
C30_StartNeedsPlayer ==
    [][\A u \in Users :
          StartGame(u) =>
              IF game.status = "waiting" /\ Len(game.snakes) >= 1
              THEN game' = [game EXCEPT !.status = "playing"]
              ELSE game' = game]_vars

\* C31: a restart_game step in status finished leaves a game as it is when
\* created (waiting, no players, no food, no scores, no winner), and a
\* restart_game step in status waiting or playing changes nothing.
C31_RestartResets ==
    [][\A u \in Users :
          RestartGame(u) =>
              IF game.status = "finished"
              THEN game' = [game EXCEPT !.status = "waiting",
                                        !.snakes = << >>,
                                        !.food = << >>,
                                        !.scores = EmptyDict,
                                        !.winner = NoWinner]
              ELSE game' = game]_vars

\* C32: a step in which an action of a room's activity fails leaves that room
\* with a stopped-and-replaced activity, the default chat, and sends an
\* activity_change_error, while every other room is as it was.
C32_FailureCaughtAtRoom ==
    [][last'.op = "activity_failed" =>
          /\ activity_registry'.rooms[last'.room] = NewActivity(last'.room, "chat")
          /\ \E m \in sent' : m.type = "activity_change_error"
          /\ \A q \in Rooms \ {last'.room} : RoomView(q)' = RoomView(q)]_vars

(***************************************************************************)
(* Properties of the client (specifications PlayerSpec and AppSpec).      *)
(***************************************************************************)
\* the step has handled a state-change event of the player
Handled == ytp' # ytp /\ ytp'.event # NoEvent

\* C33: while the initial-sync timer of the current player has not fired, the
\* handling of a state change of the player makes no callback.
C33_QuietUntilInitialSync ==
    [][(Handled /\ ytp'.gen \notin ytp'.synced) => ytp'.calls = {}]_vars

\* C34: after an activity_state of the youtube activity on this connection,
\* a youtube delta message leaves each field it carries in the client's
\* activity state.
C34_DeltaMerged ==
    [][(app'.received \in Deltas /\ app' # app) =>
          /\ app'.activityState.activity_type = "youtube"
          /\ \A f \in StateFields \cap DOMAIN app'.received :
                 app'.activityState.state[f] = app'.received[f]]_vars

\* C35: the handling of a state change that a play or pause command of the
\* sync effect has caused calls neither onPlay nor onPause.
C35_SyncNeverEchoed ==
    [][(Handled /\ ytp'.event.cause = "sync") =>
          ytp'.calls \cap {"onPlay", "onPause", "onSeek"} = {}]_vars

\* C36: when the player leaves BUFFERING for PLAYING, PAUSED or ENDED after
\* onBuffering(true) was called, the handling of that state change calls
\* onBuffering(false).
C36_BufferingCleared ==
    [][(/\ Handled
        /\ ytp.buffering_sent
        /\ ytp'.event.state \in {"PLAYING", "PAUSED", "ENDED"})
          => "onBuffering(false)" \in ytp'.calls]_vars

C38_NoTurnBackIntoNeck ==
    [][(snake_last'.op = "tick" /\ ticks' # ticks) =>
          \A i \in DOMAIN game.snakes :
              (game.snakes[i].alive /\ Len(game.snakes[i].positions) >= 2)
                 => NewHead(game, i) # game.snakes[i].positions[2]]_vars

\* C39: the tick in which the last living snake dies leaves the game finished.
C39_AllDeadFinishes ==
    [][(/\ snake_last'.op = "tick" /\ ticks' # ticks
        /\ AliveSnakes(game) # {}
        /\ AliveSnakes(game') = {})
          => game'.status = "finished"]_vars

====
